---- MODULE Spec2Model ----
(***************************************************************************)
(* A model of src/app.py: the drama data loader, the similarity index, the *)
(* recommend and get_top_dramas_by_country queries and the rating parser.  *)
(*                                                                         *)
(* Text is a sequence of one-character strings.  A cell of the data frame  *)
(* is a record [t, s, n, d]: t = "str" with the text in s, t = "nan" for a *)
(* missing value, t = "num" for an integer n, t = "float" for the rational *)
(* n / d, t = "none" for Python's None.                                    *)
(***************************************************************************)
EXTENDS Integers, Sequences, FiniteSets, TLC

VARIABLES csv, pc, newdf, similarity, original_df, last, rating_in, rating_out

vars == <<csv, pc, newdf, similarity, original_df, last, rating_in, rating_out>>

(* ------------------------------ bounds -------------------------------- *)

\* The largest number of rows of the source sheet.
MaxRows == 7

\* The largest top_n handed to get_top_dramas_by_country.
MaxTopN == 2

\* The longest rating text handed to extract_numeric_rating.
MaxRatingLen == 4

(* ------------------------------ values -------------------------------- *)

Str(s) == [t |-> "str", s |-> s, n |-> 0, d |-> 1]

NaN == [t |-> "nan", s |-> <<>>, n |-> 0, d |-> 1]

None == [t |-> "none", s |-> <<>>, n |-> 0, d |-> 1]

Num(k) == [t |-> "num", s |-> <<>>, n |-> k, d |-> 1]

RECURSIVE GCD(_, _)
GCD(a, b) == IF b = 0 THEN a ELSE GCD(b, a % b)

\* The rational num / den in lowest terms (den > 0, num >= 0).
Float(num, den) ==
    LET g == GCD(num, den)
    IN  [t |-> "float", s |-> <<>>, n |-> num \div g, d |-> den \div g]

IsStr(x) == x.t = "str"

\* a <= b for two rationals.
FloatLeq(a, b) == a.n * b.d <= b.n * a.d

Min(a, b) == IF a <= b THEN a ELSE b

(* ------------------------------- text --------------------------------- *)

NBSP == "nbsp"

Digits == {"0", "1", "2", "3", "4", "5", "6", "7", "8", "9"}

Whitespace == {" ", NBSP}

\* str.lower() on one character.
LowerChar(c) ==
    CASE c = "A" -> "a" [] c = "B" -> "b" [] c = "C" -> "c" [] c = "D" -> "d"
      [] c = "E" -> "e" [] c = "G" -> "g" [] c = "I" -> "i" [] c = "J" -> "j"
      [] c = "K" -> "k" [] c = "M" -> "m" [] c = "L" -> "l" [] c = "N" -> "n"
      [] c = "S" -> "s" [] c = "T" -> "t" [] c = "W" -> "w" [] c = "Z" -> "z"
      [] OTHER -> c

\* A comparison that forgets to fold case.
LowerKeepsCase(s) == s

\* str.lower()
Lower(s) == [i \in 1..Len(s) |-> LowerChar(s[i])]

\* The characters \w of a regular expression does not match, among those used.
NonWord == {" ", NBSP, "-", "/", ".", ",", "(", ")"}

\* The maximal runs of text[i..] that hold no character of Sep; cur is the
\* run being read.
RECURSIVE RunsFrom(_, _, _, _)
RunsFrom(text, i, cur, Sep) ==
    IF i > Len(text)
    THEN IF cur = <<>> THEN <<>> ELSE <<cur>>
    ELSE IF text[i] \in Sep
         THEN (IF cur = <<>> THEN <<>> ELSE <<cur>>) \o RunsFrom(text, i + 1, <<>>, Sep)
         ELSE RunsFrom(text, i + 1, Append(cur, text[i]), Sep)

\* str.split(): the runs between whitespace.
Split(text) == RunsFrom(text, 1, <<>>, Whitespace)

\* " ".join(tokens)
RECURSIVE Join(_)
Join(tokens) ==
    IF tokens = <<>> THEN <<>>
    ELSE IF Len(tokens) = 1 THEN tokens[1]
    ELSE tokens[1] \o <<" ">> \o Join(Tail(tokens))

\* str.replace('-', ' ')
ReplaceHyphen(s) == [i \in 1..Len(s) |-> IF s[i] = "-" THEN " " ELSE s[i]]

\* An f-string's rendering of a cell: the text itself, or "nan" for a
\* missing value (the float nan).
Format(x) == IF IsStr(x) THEN x.s ELSE <<"n", "a", "n">>

(* --------------------------- the source sheet ------------------------- *)

Row(title, country, rating, episodes, duration, release, summary, genres, themes) ==
    [Title |-> title, Country |-> country, Rating |-> rating, Episodes |-> episodes,
     Duration |-> duration, ReleaseDate |-> release, Summary |-> summary,
     Genres |-> genres, Themes |-> themes]

\* The rows a sheet is drawn from, in sheet order.  pandas reads an empty
\* cell as a missing value, so a text cell is never the empty text; no
\* Title or Rating is all digits, so both columns are read as text.
MasterRows ==
    << Row(Str(<<"A","b">>), Str(<<"K","r">>), Str(<<"9","/","1","0">>), Num(16),
           Str(<<"1","h">>), Str(<<"2","0","2","0">>),
           Str(<<"w","a","r">>), Str(<<"S","p","y">>), Str(<<"s","c","i","-","f","i">>)),
       Row(Str(<<"a","b">>), Str(<<"K","r",",","J","p">>), NaN, NaN, NaN, NaN,
           Str(<<"W","a","r">>), Str(<<"s","p","y">>), Str(<<"s","c","i"," ","f","i">>)),
       Row(Str(<<"A","b">>), Str(<<"T","h">>), Str(<<"7",".","5","/","1","0">>), Num(8),
           Str(<<"1","h">>), NaN,
           Str(<<"l","o","v","e","s">>), Str(<<"w","a","r">>), Str(<<"s","p","y">>)),
       Row(Str(<<"C","d">>), Str(<<"J","p">>), Str(<<"N","/","A">>), Num(10),
           NaN, Str(<<"2","0","2","0">>),
           NaN, Str(<<"l","o","v","e">>), NaN),
       Row(Str(<<"E","f">>), Str(<<"T","h">>), Str(<<"8","/","1","0">>), NaN,
           Str(<<"1","h">>), Str(<<"2","0","2","0">>),
           Str(<<"o","f">>), Str(<<"m","e">>), Str(<<"o","f">>)),
       Row(Str(<<"G","h">>), NaN, Str(<<"7",".","5","/","1","0">>), Num(16),
           Str(<<"1","h">>), Str(<<"2","0","2","0">>),
           Str(<<"l","o","v","e","s">>), Str(<<"w","a","r">>), Str(<<"l","o","v","e">>)),
       Row(Str(<<"I","j">>), Str(<<"k","r">>), Str(<<"9","/","1","0">>), Num(16),
           Str(<<"1","h">>), Str(<<"2","0","2","0">>),
           Str(<<"s","p","y">>), Str(<<"s","p","y">>), Str(<<"w","a","r","-","m","e">>)),
       Row(NaN, NaN, NaN, Num(16), Str(<<"1","h">>), Str(<<"2","0","2","0">>),
           Str(<<"w","a","r">>), Str(<<"l","o","v","e">>), Str(<<"m","e">>)) >>

\* The elements of rows at the indices in keep, in order.
RECURSIVE Pick(_, _, _)
Pick(rows, i, keep) ==
    IF i > Len(rows) THEN <<>>
    ELSE (IF i \in keep THEN <<rows[i]>> ELSE <<>>) \o Pick(rows, i + 1, keep)

\* pd.read_csv(sheet_url): a sheet of 1..MaxRows rows.
Sheets ==
    { Pick(MasterRows, 1, S) :
        S \in { T \in SUBSET (1..Len(MasterRows)) :
                  Cardinality(T) >= 1 /\ Cardinality(T) <= MaxRows } }

(* ---------------------- load_and_preprocess_data ---------------------- *)

DefaultEpisodes == 12

DefaultDuration == Str(<<"4", "5", " ", "m", "i", "n">>)

DefaultRating == Str(<<"5", ".", "7", "/", "1", "0", " ", "(", "M", "D", "L", ")">>)

DefaultReleaseDate == Str(<<"2", "0", "2", "1", "-", "0", "1", "-", "0", "1">>)

\* Series.fillna(value)
FillNa(x, value) == IF x.t = "nan" THEN value ELSE x

\* The four fillna assignments.
FillDefaults(row) ==
    [row EXCEPT !.Episodes = FillNa(@, Num(DefaultEpisodes)),
                !.Duration = FillNa(@, DefaultDuration),
                !.Rating = FillNa(@, DefaultRating),
                !.ReleaseDate = FillNa(@, DefaultReleaseDate)]

\* drop_duplicates(subset='Title', keep='last')
DropDuplicatesKeepLast(rows) ==
    Pick(rows, 1, { i \in 1..Len(rows) :
                      \A j \in (i + 1)..Len(rows) : rows[j].Title # rows[i].Title })

\* df.drop_duplicates(subset='Title') then reset_index(drop=True): the
\* first row of each Title, in order, renumbered from 1.  Missing Titles
\* count as equal.
DropDuplicates(rows) ==
    Pick(rows, 1, { i \in 1..Len(rows) :
                      \A j \in 1..(i - 1) : rows[j].Title # rows[i].Title })

\* The Themes lambda: hyphens to spaces in a text cell, anything else kept.
ThemesCell(x) == IF IsStr(x) THEN Str(ReplaceHyphen(x.s)) ELSE x

\* The Tags lambda: f"{Summary} {Genres} {Themes}".lower()
TagsOf(row) ==
    Lower(Format(row.Summary) \o <<" ">> \o Format(row.Genres) \o <<" ">>
          \o Format(row.Themes))

\* df as load_and_preprocess_data returns it.
PreprocessRow(row) ==
    LET r == [row EXCEPT !.Themes = ThemesCell(@)]
    IN  [Title |-> r.Title, Country |-> r.Country, Rating |-> r.Rating,
         Episodes |-> r.Episodes, Duration |-> r.Duration,
         ReleaseDate |-> r.ReleaseDate, Summary |-> r.Summary,
         Genres |-> r.Genres, Themes |-> r.Themes, Tags |-> TagsOf(r)]

Preprocess(rows) ==
    LET filled == [i \in 1..Len(rows) |-> FillDefaults(rows[i])]
        dedup == DropDuplicates(filled)
    IN  [i \in 1..Len(dedup) |-> PreprocessRow(dedup[i])]

\* ps.stem(token): of Porter's algorithm the model keeps step 1a's plural
\* rule on the words the sheets use (a final "s" not after "s" is dropped);
\* words of one or two letters are returned as they are.
StemToken(w) ==
    IF Len(w) > 2 /\ w[Len(w)] = "s" /\ w[Len(w) - 1] # "s"
    THEN SubSeq(w, 1, Len(w) - 1)
    ELSE w

\* stem(text)
Stem(text) ==
    LET ws == Split(text)
    IN  Join([i \in 1..Len(ws) |-> StemToken(ws[i])])

\* newdf: the columns copied (Poster_URL, which nothing reads, is left out),
\* Tags stemmed.
NewDfOf(df) ==
    [i \in 1..Len(df) |->
        [Title |-> df[i].Title, Country |-> df[i].Country, Rating |-> df[i].Rating,
         Tags |-> Stem(df[i].Tags)]]

(* ------------------ CountVectorizer, cosine_similarity ---------------- *)

\* A part of sklearn's English stop word list.
StopWords == { <<"o", "f">>, <<"m", "e">> }

Range(f) == { f[i] : i \in DOMAIN f }

\* The analyzer of CountVectorizer(stop_words='english'): lowercase, the
\* runs of two or more word characters, stop words removed.
Tokens(doc) ==
    SelectSeq(RunsFrom(Lower(doc), 1, <<>>, NonWord),
              LAMBDA w : Len(w) >= 2 /\ w \notin StopWords)

Count(tokens, term) == Cardinality({ i \in DOMAIN tokens : tokens[i] = term })

RECURSIVE SumOver(_, _)
SumOver(f, S) ==
    IF S = {} THEN 0
    ELSE LET x == CHOOSE y \in S : TRUE
         IN  f[x] + SumOver(f, S \ {x})

\* Every term of the corpus.
Terms(docs) == UNION { Range(Tokens(docs[i])) : i \in DOMAIN docs }

\* A term's count over the whole corpus.
TermFrequency(docs, term) ==
    SumOver([i \in DOMAIN docs |-> Count(Tokens(docs[i]), term)], DOMAIN docs)

\* The vocabularies max_features = limit allows: every term when there are
\* at most limit, else limit terms of the highest corpus counts.  Which of
\* several terms of equal count stay is the sort's choice (argsort's
\* default kind is not stable), so each choice is an outcome.
Vocabularies(docs, limit) ==
    LET terms == Terms(docs)
    IN  IF Cardinality(terms) <= limit THEN {terms}
        ELSE { V \in SUBSET terms :
                 /\ Cardinality(V) = limit
                 /\ \A a \in V : \A b \in terms \ V :
                      TermFrequency(docs, a) >= TermFrequency(docs, b) }

\* cv.fit_transform(...).toarray(): row i counts each vocabulary term.
Vectors(docs, V) ==
    [i \in DOMAIN docs |-> [term \in V |-> Count(Tokens(docs[i]), term)]]

Dot(u, v) == SumOver([term \in DOMAIN u |-> u[term] * v[term]], DOMAIN u)

\* One entry of cosine_similarity: 0 when either vector is zero (sklearn
\* leaves a zero row as it is when normalising).  The entry is kept as the
\* exact square of the cosine, dot^2 / (|u|^2 |v|^2): counts are never
\* negative, so squares order and equate as the cosines do.  Rounding of
\* the floating-point entries is not modelled.
Cosine(u, v) ==
    LET nu == Dot(u, u)
        nv == Dot(v, v)
        uv == Dot(u, v)
    IN  IF nu = 0 \/ nv = 0 THEN Float(0, 1) ELSE Float(uv * uv, nu * nv)

\* cosine_similarity(vectors)
CosineSimilarity(vectors) ==
    [i \in DOMAIN vectors |-> [j \in DOMAIN vectors |-> Cosine(vectors[i], vectors[j])]]

TagsColumn(frame) == [i \in DOMAIN frame |-> frame[i].Tags]

(* ------------------------ extract_numeric_rating ---------------------- *)

\* str.strip(): whitespace (the non-breaking space is whitespace to Python)
\* removed from both ends.
RECURSIVE Strip(_)
Strip(s) ==
    IF s = <<>> THEN s
    ELSE IF s[1] \in Whitespace THEN Strip(Tail(s))
    ELSE IF s[Len(s)] \in Whitespace THEN Strip(SubSeq(s, 1, Len(s) - 1))
    ELSE s

\* str.replace('\xa0', ' ')
ReplaceNbsp(s) == [i \in 1..Len(s) |-> IF s[i] = NBSP THEN " " ELSE s[i]]

DigitValue(c) ==
    CASE c = "0" -> 0 [] c = "1" -> 1 [] c = "2" -> 2 [] c = "3" -> 3 [] c = "4" -> 4
      [] c = "5" -> 5 [] c = "6" -> 6 [] c = "7" -> 7 [] c = "8" -> 8 [] c = "9" -> 9

\* The end of the longest run of digits that starts at s[i] (\d+, greedy).
RECURSIVE DigitRunEnd(_, _)
DigitRunEnd(s, i) ==
    IF i < Len(s) /\ s[i + 1] \in Digits THEN DigitRunEnd(s, i + 1) ELSE i

\* The pattern without its fraction group: re.search(r'(\d+)', s).
NumberSearchIntegerOnly(s) ==
    LET starts == { i \in 1..Len(s) : s[i] \in Digits }
    IN  IF starts = {} THEN <<0, 0>>
        ELSE LET i == CHOOSE a \in starts : \A b \in starts : a <= b
             IN  <<i, DigitRunEnd(s, i)>>

\* re.search(r'(\d+(\.\d+)?)', s): <<start, end>> of group 1 of the leftmost
\* match, <<0, 0>> when nothing matches.
NumberSearch(s) ==
    LET starts == { i \in 1..Len(s) : s[i] \in Digits }
    IN  IF starts = {} THEN <<0, 0>>
        ELSE LET i == CHOOSE a \in starts : \A b \in starts : a <= b
                 j == DigitRunEnd(s, i)
             IN  IF j + 2 <= Len(s) /\ s[j + 1] = "." /\ s[j + 2] \in Digits
                 THEN <<i, DigitRunEnd(s, j + 2)>>
                 ELSE <<i, j>>

\* float(text) of digits with at most one point: acc / scale so far.
RECURSIVE ParseFloat(_, _, _, _)
ParseFloat(text, acc, scale, seenPoint) ==
    IF text = <<>> THEN Float(acc, scale)
    ELSE IF text[1] = "." THEN ParseFloat(Tail(text), acc, scale, TRUE)
    ELSE ParseFloat(Tail(text), acc * 10 + DigitValue(text[1]),
                    IF seenPoint THEN scale * 10 ELSE scale, seenPoint)

extract_numeric_rating(rating) ==
    IF IsStr(rating)
    THEN LET text == ReplaceNbsp(Strip(rating.s))
             m == NumberSearch(text)
         IN  IF m # <<0, 0>>
             THEN ParseFloat(SubSeq(text, m[1], m[2]), 0, 1, FALSE)
             ELSE None
    ELSE None

\* original_df['Numeric_Rating'] = original_df['Rating'].apply(...)
WithNumericRating(frame) ==
    [i \in DOMAIN frame |->
        [Title |-> frame[i].Title, Country |-> frame[i].Country,
         Rating |-> frame[i].Rating, Episodes |-> frame[i].Episodes,
         Duration |-> frame[i].Duration, ReleaseDate |-> frame[i].ReleaseDate,
         Summary |-> frame[i].Summary, Genres |-> frame[i].Genres,
         Themes |-> frame[i].Themes, Tags |-> frame[i].Tags,
         Numeric_Rating |-> extract_numeric_rating(frame[i].Rating)]]

(* ------------------------------ recommend ----------------------------- *)

\* Series.str raises AttributeError on a column that holds no text (a
\* column of missing values only is read as float64).
HasStrAccessor(column) == \E i \in DOMAIN column : IsStr(column[i])

TitleColumn(frame) == [i \in DOMAIN frame |-> frame[i].Title]

\* sorted(enumerate(row), reverse=True, key=lambda x: x[1]), as the indices
\* in sorted order: the sort is stable, reverse=True included, so index i
\* goes after every index already placed whose value is not smaller.
RECURSIVE SortedFrom(_, _, _)
SortedFrom(row, i, acc) ==
    IF i > Len(row) THEN acc
    ELSE LET p == Cardinality({ k \in DOMAIN acc : FloatLeq(row[i], row[acc[k]]) })
         IN  SortedFrom(row, i + 1,
                        SubSeq(acc, 1, p) \o <<i>> \o SubSeq(acc, p + 1, Len(acc)))

SortedDescending(row) == SortedFrom(row, 1, <<>>)

SliceStart == 1

SliceStop == 6

\* The slice taken from the start of the list: list[:SliceStop].
SliceFromStart(list) == SubSeq(list, 1, Min(SliceStop, Len(list)))

\* list[SliceStart:SliceStop]
Slice(list) == SubSeq(list, SliceStart + 1, Min(SliceStop, Len(list)))

Returned(titles, index) ==
    [result |-> titles, index |-> index, error |-> FALSE, raised |-> FALSE]

Raised(index) == [result |-> <<>>, index |-> index, error |-> FALSE, raised |-> TRUE]

\* The body of recommend's try block: what it returns, or that it raised.
\* index is the record the lookup matched, 0 when none.
RecommendBody(frame, sim, drama_title) ==
    IF ~HasStrAccessor(TitleColumn(frame)) \/ ~IsStr(drama_title)
    THEN Raised(0)
    ELSE LET drama_index_series ==
                 { i \in DOMAIN frame :
                     /\ IsStr(frame[i].Title)
                     /\ Lower(frame[i].Title.s) = Lower(drama_title.s) }
         IN  IF drama_index_series = {} THEN Returned(<<>>, 0)
             ELSE LET drama_index ==
                          CHOOSE a \in drama_index_series :
                              \A b \in drama_index_series : a <= b
                  IN  IF drama_index \notin DOMAIN sim THEN Raised(drama_index)
                      ELSE LET drama_list == Slice(SortedDescending(sim[drama_index]))
                           IN  IF \E k \in DOMAIN drama_list :
                                     drama_list[k] \notin DOMAIN frame
                               THEN Raised(drama_index)
                               ELSE Returned(
                                      [k \in DOMAIN drama_list |->
                                          frame[drama_list[k]].Title],
                                      drama_index)

\* recommend without its except clause.
recommend_uncaught(frame, sim, drama_title) ==
    LET r == RecommendBody(frame, sim, drama_title)
    IN  [result |-> r.result, index |-> r.index, error |-> FALSE, raised |-> r.raised]

\* recommend: the try block, and except Exception: st.error(...); return [].
recommend(frame, sim, drama_title) ==
    LET r == RecommendBody(frame, sim, drama_title)
    IN  IF r.raised
        THEN [result |-> <<>>, index |-> r.index, error |-> TRUE, raised |-> FALSE]
        ELSE r

(* ---------------------- get_top_dramas_by_country --------------------- *)

\* One atom of the pattern against one character, under re.IGNORECASE: "."
\* matches any character, another character matches itself in either case.
AtomMatches(atom, c) == atom = "." \/ LowerChar(atom) = LowerChar(c)

\* Series.str.contains(pat, case=False) on one text cell: pat is a regular
\* expression (regex=True is the default), searched for anywhere in text.
RegexSearch(pat, text) ==
    \E off \in 0..(Len(text) - Len(pat)) :
        \A k \in 1..Len(pat) : AtomMatches(pat[k], text[off + k])

CountryColumn(frame) == [i \in DOMAIN frame |-> frame[i].Country]

\* dataframe[dataframe['Country'].str.contains(country_name, case=False,
\* na=False)], as the indices kept.
Filtered(dataframe, country_name) ==
    { i \in DOMAIN dataframe :
        /\ IsStr(dataframe[i].Country)
        /\ RegexSearch(country_name, dataframe[i].Country.s) }

\* .drop_duplicates(subset='Title')
FirstOfTitle(dataframe, idx) ==
    { i \in idx : \A j \in idx : j < i => dataframe[j].Title # dataframe[i].Title }

\* .dropna(subset=['Numeric_Rating'])
DropNa(dataframe, idx) == { i \in idx : dataframe[i].Numeric_Rating.t = "float" }

\* .sort_values(by='Numeric_Rating', ascending=False): every order of idx
\* with the ratings not increasing.  The default sort kind is not stable,
\* so equal ratings may come out in any order.
RECURSIVE SortValues(_, _)
SortValues(dataframe, idx) ==
    IF idx = {} THEN { <<>> }
    ELSE UNION { { <<i>> \o rest : rest \in SortValues(dataframe, idx \ {i}) } :
                 i \in { a \in idx : \A b \in idx :
                           FloatLeq(dataframe[b].Numeric_Rating,
                                    dataframe[a].Numeric_Rating) } }

\* .head(top_n)
HeadN(order, top_n) == SubSeq(order, 1, Min(top_n, Len(order)))

\* get_top_dramas_by_country: the frames it may return, or that it raised
\* (Series.str on a Country column that holds no text; nothing catches it).
get_top_dramas_by_country(dataframe, country_name, top_n) ==
    IF ~HasStrAccessor(CountryColumn(dataframe))
    THEN { Raised(0) }
    ELSE { Returned([k \in DOMAIN HeadN(order, top_n) |-> dataframe[HeadN(order, top_n)[k]]], 0) :
             order \in SortValues(dataframe,
                          DropNa(dataframe,
                              FirstOfTitle(dataframe, Filtered(dataframe, country_name)))) }

\* The filter applied to the frame itself (inplace=True).
DataframeFilteredInPlace(dataframe, country_name, top_n) ==
    Pick(dataframe, 1, DropNa(dataframe, Filtered(dataframe, country_name)))

\* What a call of get_top_dramas_by_country leaves in the frame it was
\* handed: every step of it builds a new frame.
DataframeAfterTop(dataframe, country_name, top_n) == dataframe

\* What a call of recommend leaves in newdf and similarity.
FrameAfterRecommend(frame, sim, drama_title) == <<frame, sim>>

(* ------------------------------- inputs ------------------------------- *)

\* The titles recommend is called with: every Title of the sheet rows, in
\* other letter case too, a title no row has, and None.
TitleInputs ==
    { MasterRows[i].Title : i \in { j \in DOMAIN MasterRows : IsStr(MasterRows[j].Title) } }
    \cup { Str(<<"A","B">>), Str(<<"c","D">>), Str(<<"Z","z">>), None }

\* The country names get_top_dramas_by_country is called with.
CountryInputs ==
    { <<"k","r">>, <<"J","p">>, <<"T","h">>, <<"p",",">>, <<>>, <<".">>, <<"K",".">> }

RatingAlphabet == {"7", "5", ".", "/", " ", NBSP, "N"}

Example1 == Str(<<"7", ".", "5", "/", "1", "0", " ", "(", "M", "D", "L", ")">>)

Example2 == Str(<<"N", "/", "A">>)

Example3 == Str(<<" ", " ", "8", NBSP, "/", "1", "0">>)

\* What extract_numeric_rating is called with: every text of at most
\* MaxRatingLen characters, the documented examples, and cells that are
\* not text.
RatingInputs ==
    { Str(s) : s \in UNION { [1..k -> RatingAlphabet] : k \in 0..MaxRatingLen } }
    \cup { Example1, Example2, Example3, NaN, None, Num(8), Float(15, 2) }

(* ------------------------------- actions ------------------------------ *)

NoCall ==
    [kind |-> "none", title |-> None, country |-> <<>>, top_n |-> 0,
     result |-> <<>>, index |-> 0, error |-> FALSE, raised |-> FALSE]

Pending == [t |-> "pending", s |-> <<>>, n |-> 0, d |-> 1]

Init ==
    /\ csv \in Sheets
    /\ pc = "start"
    /\ newdf = <<>>
    /\ similarity = <<>>
    /\ original_df = <<>>
    /\ last = NoCall
    /\ rating_in = None
    /\ rating_out = Pending

\* newdf, similarity, original_df = load_and_preprocess_data()
Load ==
    /\ pc = "start"
    /\ LET df == Preprocess(csv)
           frame == NewDfOf(df)
       IN  /\ Terms(TagsColumn(frame)) # {}
           /\ \E V \in Vocabularies(TagsColumn(frame), Len(frame)) :
                similarity' = CosineSimilarity(Vectors(TagsColumn(frame), V))
           /\ newdf' = frame
           /\ original_df' = df
    /\ pc' = "loaded"
    /\ UNCHANGED <<csv, last, rating_in, rating_out>>

\* fit_transform raises ValueError (empty vocabulary) when no document
\* holds a term: the script stops.
LoadFails ==
    /\ pc = "start"
    /\ Terms(TagsColumn(NewDfOf(Preprocess(csv)))) = {}
    /\ pc' = "failed"
    /\ UNCHANGED <<csv, newdf, similarity, original_df, last, rating_in, rating_out>>

\* original_df['Numeric_Rating'] = original_df['Rating'].apply(extract_numeric_rating)
ApplyNumericRating ==
    /\ pc = "loaded"
    /\ original_df' = WithNumericRating(original_df)
    /\ pc' = "ready"
    /\ UNCHANGED <<csv, newdf, similarity, last, rating_in, rating_out>>

\* recommended_titles = recommend(drama_title)
Recommend ==
    /\ pc = "ready"
    /\ \E drama_title \in TitleInputs :
         LET r == recommend(newdf, similarity, drama_title)
             after == FrameAfterRecommend(newdf, similarity, drama_title)
         IN  /\ last' = [kind |-> "recommend", title |-> drama_title, country |-> <<>>,
                         top_n |-> 0, result |-> r.result, index |-> r.index,
                         error |-> r.error, raised |-> r.raised]
             /\ newdf' = after[1]
             /\ similarity' = after[2]
    /\ UNCHANGED <<csv, pc, original_df, rating_in, rating_out>>

\* top_dramas = get_top_dramas_by_country(original_df, country, top_n)
GetTop ==
    /\ pc = "ready"
    /\ \E country_name \in CountryInputs : \E top_n \in 0..MaxTopN :
         /\ \E r \in get_top_dramas_by_country(original_df, country_name, top_n) :
              last' = [kind |-> "top", title |-> None, country |-> country_name,
                       top_n |-> top_n, result |-> r.result, index |-> 0,
                       error |-> r.error, raised |-> r.raised]
         /\ original_df' = DataframeAfterTop(original_df, country_name, top_n)
    /\ UNCHANGED <<csv, pc, newdf, similarity, rating_in, rating_out>>

Next == Load \/ LoadFails \/ ApplyNumericRating \/ Recommend \/ GetTop

Spec == Init /\ [][Next]_vars

(* A second specification: extract_numeric_rating on its own inputs. *)

InitRating ==
    /\ csv = <<>>
    /\ pc = "rating"
    /\ newdf = <<>>
    /\ similarity = <<>>
    /\ original_df = <<>>
    /\ last = NoCall
    /\ rating_in \in RatingInputs
    /\ rating_out = Pending

ExtractCall ==
    /\ pc = "rating"
    /\ rating_out = Pending
    /\ rating_out' = extract_numeric_rating(rating_in)
    /\ UNCHANGED <<csv, pc, newdf, similarity, original_df, last, rating_in>>

NextRating == ExtractCall

SpecRating == InitRating /\ [][NextRating]_vars

(* ------------------------------- claims ------------------------------- *)

\* The letters that differ in case only, as pairs.
CasePairs ==
    { {"A", "a"}, {"B", "b"}, {"C", "c"}, {"D", "d"}, {"E", "e"}, {"F", "f"},
      {"G", "g"}, {"H", "h"}, {"I", "i"}, {"J", "j"}, {"K", "k"}, {"L", "l"},
      {"M", "m"}, {"N", "n"}, {"P", "p"}, {"R", "r"}, {"S", "s"}, {"T", "t"},
      {"W", "w"}, {"Z", "z"} }

SameLetter(x, y) == x = y \/ {x, y} \in CasePairs

\* a and b are equal up to letter case.
EqualIgnoringCase(a, b) ==
    Len(a) = Len(b) /\ \A k \in 1..Len(a) : SameLetter(a[k], b[k])

\* text holds part as a substring, up to letter case.
ContainsIgnoringCase(text, part) ==
    \E off \in 0..(Len(text) - Len(part)) :
        \A k \in 1..Len(part) : SameLetter(part[k], text[off + k])

\* The records whose Title equals the title of the last recommend call up
\* to letter case.
TitleMatches ==
    IF IsStr(last.title)
    THEN { i \in DOMAIN newdf :
             IsStr(newdf[i].Title) /\ EqualIgnoringCase(newdf[i].Title.s, last.title.s) }
    ELSE {}

First(S) == CHOOSE a \in S : \A b \in S : a <= b

\* C1: recommend(T), for a title T that matches a record, never returns
\* the matched record itself.
C1_NeverRecommendsItself ==
    (last.kind = "recommend" /\ TitleMatches # {}) =>
        \A k \in DOMAIN last.result : last.result[k] # newdf[First(TitleMatches)].Title

\* C2: recommend(T) returns the empty list when T equals no Title up to
\* letter case, and otherwise looks up the first record whose Title equals
\* T up to letter case.
C2_CaseInsensitiveLookup ==
    (last.kind = "recommend" /\ IsStr(last.title)) =>
        /\ TitleMatches = {} => (last.result = <<>> /\ last.index = 0)
        /\ TitleMatches # {} => last.index = First(TitleMatches)

\* A title in another letter case than the record's, two records matching
\* it, the first of them looked up.
C2_Witness ==
    /\ last.kind = "recommend"
    /\ Cardinality(TitleMatches) = 2
    /\ last.index = First(TitleMatches)
    /\ \A i \in TitleMatches : newdf[i].Title # last.title

\* C3: the list recommend returns has at most 5 titles and at most N - 1;
\* when the title is matched it has exactly min(5, N - 1).
C3_ResultLength ==
    last.kind = "recommend" =>
        /\ Len(last.result) <= 5
        /\ Len(last.result) <= Len(newdf) - 1
        /\ TitleMatches # {} => Len(last.result) = Min(5, Len(newdf) - 1)

\* A matched title among seven records: five titles of the six others.
C3_Witness ==
    /\ last.kind = "recommend"
    /\ TitleMatches # {}
    /\ Len(newdf) = 7
    /\ Len(last.result) = 5

\* Record a comes before record b in the ranking for record q: a higher
\* similarity to q, or the same and a lower index.
RanksBefore(q, a, b) ==
    \/ ~FloatLeq(similarity[q][a], similarity[q][b])
    \/ similarity[q][a] = similarity[q][b] /\ a < b

\* The titles of the first (at most 5) records other than q in that ranking.
TopRanked(q) ==
    LET others == DOMAIN newdf \ {q}
        place(a) == 1 + Cardinality({ b \in others : RanksBefore(q, b, a) })
    IN  [p \in 1..Min(5, Cardinality(others)) |->
            newdf[CHOOSE a \in others : place(a) = p].Title]

\* C4: for a matched title, recommend returns the first (up to 5) of the
\* other records ranked by similarity to the queried record, descending,
\* equal similarities by record index ascending.
C4_RankedOthers ==
    (last.kind = "recommend" /\ TitleMatches # {}) =>
        last.result = TopRanked(First(TitleMatches))

\* The records get_top_dramas_by_country should choose among: Country holds
\* the name as a substring up to letter case, Numeric_Rating present.
PassesFilter(i) ==
    /\ IsStr(original_df[i].Country)
    /\ ContainsIgnoringCase(original_df[i].Country.s, last.country)
    /\ original_df[i].Numeric_Rating.t = "float"

\* C5: get_top_dramas_by_country(df, c, n) returns at most n records, each
\* with a Country that holds c as a substring up to letter case and with a
\* Numeric_Rating, no two with the same Title, in non-increasing rating
\* order, and no record left out that passes the filter has a strictly
\* higher rating than a returned one.
C5_TopByCountry ==
    (last.kind = "top" /\ ~last.raised) =>
        /\ Len(last.result) <= last.top_n
        /\ \A k \in DOMAIN last.result :
             /\ IsStr(last.result[k].Country)
             /\ ContainsIgnoringCase(last.result[k].Country.s, last.country)
             /\ last.result[k].Numeric_Rating.t = "float"
        /\ \A k \in DOMAIN last.result : \A m \in DOMAIN last.result :
             /\ k # m => last.result[k].Title # last.result[m].Title
             /\ k < m => FloatLeq(last.result[m].Numeric_Rating,
                                  last.result[k].Numeric_Rating)
        /\ \A i \in DOMAIN original_df :
             (PassesFilter(i) /\ \A k \in DOMAIN last.result : last.result[k] # original_df[i])
                => \A k \in DOMAIN last.result :
                     FloatLeq(original_df[i].Numeric_Rating,
                              last.result[k].Numeric_Rating)

\* t is digits, or digits, a point and digits.
IsNumberText(t) ==
    \E k \in 1..Len(t) :
        /\ \A a \in 1..k : t[a] \in Digits
        /\ \/ k = Len(t)
           \/ /\ k + 2 <= Len(t)
              /\ t[k + 1] = "."
              /\ \A a \in (k + 2)..Len(t) : t[a] \in Digits

RECURSIVE Pow10(_)
Pow10(k) == IF k = 0 THEN 1 ELSE 10 * Pow10(k - 1)

\* The value of a number text: each digit times its place.
DecimalValue(t) ==
    LET ds == SelectSeq(t, LAMBDA c : c \in Digits)
        point == { a \in 1..Len(t) : t[a] = "." }
        places == IF point = {} THEN 0 ELSE Len(t) - First(point)
    IN  Float(SumOver([a \in 1..Len(ds) |-> DigitValue(ds[a]) * Pow10(Len(ds) - a)],
                      1..Len(ds)),
              Pow10(places))

\* The value of the leftmost number in raw, the longest that starts there;
\* None when raw is not text or holds no digit.
ExpectedRating(raw) ==
    IF ~IsStr(raw) \/ \A a \in 1..Len(raw.s) : raw.s[a] \notin Digits THEN None
    ELSE LET spans == { <<a, b>> \in (1..Len(raw.s)) \X (1..Len(raw.s)) :
                          a <= b /\ IsNumberText(SubSeq(raw.s, a, b)) }
             span == CHOOSE x \in spans :
                         \A y \in spans : x[1] < y[1] \/ (x[1] = y[1] /\ x[2] >= y[2])
         IN  DecimalValue(SubSeq(raw.s, span[1], span[2]))

\* C6: extract_numeric_rating(raw) is the value of the leftmost number in
\* raw (digits, optionally a point and digits), None when raw holds no
\* digit or is not text; "7.5/10 (MDL)" gives 7.5, "N/A" gives None and
\* "  8<nbsp>/10" gives 8.
C6_ExtractNumericRating ==
    rating_out # Pending =>
        /\ rating_out = ExpectedRating(rating_in)
        /\ rating_in = Example1 => rating_out = Float(75, 10)
        /\ rating_in = Example2 => rating_out = None
        /\ rating_in = Example3 => rating_out = Float(8, 1)

\* A decimal number after a non-breaking space, parsed.
C6_Witness ==
    /\ rating_in = Str(<<NBSP, "7", ".", "5">>)
    /\ rating_out = Float(15, 2)

Built == pc \in {"loaded", "ready"}

\* The first row of the sheet with this Title.
SourceIndex(title) == First({ k \in DOMAIN csv : csv[k].Title = title })

\* A cell, or the column's default when the cell is missing.
OrDefault(x, default) == IF x = NaN THEN default ELSE x

\* Record r is sheet row src with the defaults in its missing cells (and
\* the hyphens of Themes as spaces).
IsRowWithDefaults(r, src) ==
    /\ r.Title = src.Title
    /\ r.Country = src.Country
    /\ r.Summary = src.Summary
    /\ r.Genres = src.Genres
    /\ r.Themes = ThemesCell(src.Themes)
    /\ r.Episodes = OrDefault(src.Episodes, Num(DefaultEpisodes))
    /\ r.Duration = OrDefault(src.Duration, DefaultDuration)
    /\ r.Rating = OrDefault(src.Rating, DefaultRating)
    /\ r.ReleaseDate = OrDefault(src.ReleaseDate, DefaultReleaseDate)

\* C7: after load_and_preprocess_data no two records have the same Title,
\* each Title of the sheet appears exactly once, its record is the first
\* sheet row with that Title with the defaults applied, the records keep
\* the sheet's order, and row i of the similarity matrix belongs to the
\* i-th record.
C7_DeduplicatedInOrder ==
    pc = "loaded" =>
        /\ Len(newdf) = Len(original_df)
        /\ \A i \in DOMAIN original_df : \A j \in DOMAIN original_df :
             /\ i # j => original_df[i].Title # original_df[j].Title
             /\ i < j => SourceIndex(original_df[i].Title) < SourceIndex(original_df[j].Title)
        /\ \A k \in DOMAIN csv :
             Cardinality({ i \in DOMAIN original_df : original_df[i].Title = csv[k].Title }) = 1
        /\ \A i \in DOMAIN original_df :
             /\ IsRowWithDefaults(original_df[i], csv[SourceIndex(original_df[i].Title)])
             /\ newdf[i].Title = original_df[i].Title
             /\ newdf[i].Tags = Stem(original_df[i].Tags)
        /\ DOMAIN similarity = DOMAIN newdf
        /\ \E V \in Vocabularies(TagsColumn(newdf), Len(newdf)) :
             \A i \in DOMAIN newdf :
                /\ DOMAIN similarity[i] = DOMAIN newdf
                /\ \A j \in DOMAIN newdf :
                     similarity[i][j] =
                        Cosine(Vectors(TagsColumn(newdf), V)[i],
                               Vectors(TagsColumn(newdf), V)[j])

\* A sheet with a repeated Title whose later row differs from the first,
\* loaded into at least three records.
C7_Witness ==
    /\ pc = "loaded"
    /\ Len(original_df) >= 3
    /\ \E k \in DOMAIN csv :
         /\ SourceIndex(csv[k].Title) < k
         /\ csv[k].Summary # csv[SourceIndex(csv[k].Title)].Summary

\* C8: an exception raised inside recommend (here: a title that is not
\* text, or a Title column that holds no text) never leaves recommend; it
\* is reported and the empty list returned.
C8_FaultsAreCaught ==
    last.kind = "recommend" =>
        /\ ~last.raised
        /\ (~IsStr(last.title) \/ \A i \in DOMAIN newdf : ~IsStr(newdf[i].Title))
              => (last.error /\ last.result = <<>>)

\* A call with a text title that raised inside and returned the empty list.
C8_Witness ==
    /\ last.kind = "recommend"
    /\ IsStr(last.title)
    /\ last.error
    /\ last.result = <<>>

TextOrEmpty(x) == IF IsStr(x) THEN x.s ELSE <<>>

\* C10: the Tags of every record are the tokens of the lowercased Summary,
\* Genres and Themes (hyphens as spaces) of its sheet row, a missing cell
\* giving no token.
C10_TagsFromFields ==
    Built =>
        \A i \in DOMAIN original_df :
            LET src == csv[SourceIndex(original_df[i].Title)]
            IN  Split(original_df[i].Tags) =
                  Split(Lower(TextOrEmpty(src.Summary) \o <<" ">>
                              \o TextOrEmpty(src.Genres) \o <<" ">>
                              \o ReplaceHyphen(TextOrEmpty(src.Themes))))

====
